---- MODULE Spec2Model ----
(***************************************************************************)
(* Shared-expense ledger: the persistence handlers (createGroup,           *)
(* addGroupMember, removeGroupMember, createExpense, updateExpense,        *)
(* deleteExpense, createSettlement) and the two derived reads              *)
(* (calculateGroupBalances, calculateGroupDebts with its greedy            *)
(* calculateOptimalDebts).                                                 *)
(*                                                                         *)
(* Money is an integer number of mills (1 = 0.001 currency units), so      *)
(* 0.01 is 10 and 25.00 is 25000.  Handler inputs are arbitrary positive   *)
(* numbers (zod: z.number().positive()); the numeric(10,2) columns round   *)
(* them to whole cents when a row is written.  Arithmetic is exact         *)
(* decimal arithmetic: the rounding error of IEEE doubles (about 1e-15)    *)
(* is not represented.                                                     *)
(***************************************************************************)
EXTENDS Integers, Sequences, FiniteSets, TLC

\* ---------------------------------------------------------------- bounds
NumUsers == 2
MaxGroups == 1
MaxExpenses == 1
MaxLedgerExpenses == 2
MaxSettlements == 1
MaxParticipants == 2
MaxBalances == 3
MaxGroupSerial == 4
MaxIterations == 4
MaxMemberSerial == 4
NumCallers == 2

\* ------------------------------------------------------ program constants
EPSILON == 10
ShareTolerance == 10

Users == 1..NumUsers
GroupIds == 1..MaxGroups
\* amounts a caller may pass: 0.005 (rounds to 0.01 when stored), 0.01, 0.02
InputMoney == {5, 10, 20}
\* whole-cent amounts: 0.01, 0.02
LedgerMoney == {10, 20}

VARIABLES groupsTable, groupMembersTable, expensesTable,
          expenseParticipantsTable, settlementsTable,
          nextGroupId, nextExpenseId, nextSettlementId, last, plan,
          read, tx, run, userAccounts

tables == <<groupsTable, groupMembersTable, expensesTable,
            expenseParticipantsTable, settlementsTable>>
ledger == <<expensesTable, expenseParticipantsTable, settlementsTable>>
serials == <<nextGroupId, nextExpenseId, nextSettlementId>>
\* handler calls in flight: a calculateGroupDebts call between its queries
\* (read), a createExpense transaction between its statements (tx), and one
\* call of calculateOptimalDebts on its own (run); with them the rows of
\* users that createUser writes (userAccounts), which no ledger handler
\* touches
procs == <<read, tx, run, userAccounts>>
vars == <<groupsTable, groupMembersTable, expensesTable,
          expenseParticipantsTable, settlementsTable,
          nextGroupId, nextExpenseId, nextSettlementId, last, plan,
          read, tx, run, userAccounts>>

\* ---------------------------------------------------------------- helpers
Abs(x) == IF x < 0 THEN -x ELSE x
Min(a, b) == IF a < b THEN a ELSE b

\* numeric(10,2): a positive value written to the column is rounded to cents
Numeric2(x) == ((x + 5) \div 10) * 10

\* a slip: the amount pushed as it is
ToFixed2_NoRounding(x) == x

\* Number.prototype.toFixed(2) followed by parseFloat, on a positive value
ToFixed2(x) == ((x + 5) \div 10) * 10

RECURSIVE SumAmount(_)
SumAmount(rows) ==
  IF rows = {} THEN 0
  ELSE LET r == CHOOSE x \in rows : TRUE
       IN r.amount + SumAmount(rows \ {r})

RECURSIVE SumShare(_)
SumShare(rows) ==
  IF rows = {} THEN 0
  ELSE LET r == CHOOSE x \in rows : TRUE
       IN r.share_amount + SumShare(rows \ {r})

RECURSIVE SumBalance(_)
SumBalance(bs) ==
  IF bs = <<>> THEN 0 ELSE Head(bs).balance + SumBalance(Tail(bs))

RECURSIVE SumDebts(_)
SumDebts(ds) ==
  IF ds = <<>> THEN 0 ELSE Head(ds).amount + SumDebts(Tail(ds))

Range(s) == {s[i] : i \in DOMAIN s}

\* all orders in which a query without ORDER BY may return the rows of S
Orders(S) ==
  {s \in [1..Cardinality(S) -> S] : \A i, j \in DOMAIN s : i # j => s[i] # s[j]}

\* ------------------------------------------------- queries over the tables
IsMember(groupId, userId) ==
  \E m \in groupMembersTable : m.group_id = groupId /\ m.user_id = userId

MemberIds(groupId) == {m.user_id : m \in {x \in groupMembersTable : x.group_id = groupId}}

GroupExpenses(groupId) == {e \in expensesTable : e.group_id = groupId}

\* expense_participants INNER JOIN expenses WHERE expenses.group_id = groupId
\* a slip: the join with expenses without the group filter
GroupShares_AllGroups(groupId) ==
  {p \in expenseParticipantsTable :
     \E e \in expensesTable : e.id = p.expense_id}

GroupShares(groupId) ==
  {p \in expenseParticipantsTable :
     \E e \in expensesTable : e.id = p.expense_id /\ e.group_id = groupId}

GroupSettlements(groupId) == {s \in settlementsTable : s.group_id = groupId}

\* the five aggregates both reads are built from (SUM ... GROUP BY user)
TotalPaid(groupId, u) == SumAmount({e \in GroupExpenses(groupId) : e.paid_by = u})
TotalShare(groupId, u) == SumShare({p \in GroupShares(groupId) : p.user_id = u})
TotalSettled(groupId, u) == SumAmount({s \in GroupSettlements(groupId) : s.from_user = u})
TotalReceived(groupId, u) == SumAmount({s \in GroupSettlements(groupId) : s.to_user = u})

\* ------------------------------------------------------- debt minimizer
\* Array.prototype.sort is stable: equal balances keep their input order
RECURSIVE InsertDesc(_, _)
InsertDesc(sorted, b) ==
  IF sorted = <<>> THEN <<b>>
  ELSE IF Head(sorted).balance >= b.balance
       THEN <<Head(sorted)>> \o InsertDesc(Tail(sorted), b)
       ELSE <<b>> \o sorted

RECURSIVE SortDesc(_)
SortDesc(s) ==
  IF s = <<>> THEN <<>>
  ELSE InsertDesc(SortDesc(SubSeq(s, 1, Len(s) - 1)), s[Len(s)])

RECURSIVE InsertAsc(_, _)
InsertAsc(sorted, b) ==
  IF sorted = <<>> THEN <<b>>
  ELSE IF Head(sorted).balance <= b.balance
       THEN <<Head(sorted)>> \o InsertAsc(Tail(sorted), b)
       ELSE <<b>> \o sorted

RECURSIVE SortAsc(_)
SortAsc(s) ==
  IF s = <<>> THEN <<>>
  ELSE InsertAsc(SortAsc(SubSeq(s, 1, Len(s) - 1)), s[Len(s)])

IsCreditor(b) == b.balance > EPSILON
IsDebtor(b) == b.balance < -EPSILON

\* a slip: the index moves on whether or not the balance is settled
Advance_Always(balance, index) == index + 1

\* "move to next creditor/debtor if current one is settled"
Advance(balance, index) == IF Abs(balance) < EPSILON THEN index + 1 ELSE index

\* a slip: no single payment above 0.02
SettlementAmount_Capped(creditor, debtor) ==
  Min(Min(creditor.balance, Abs(debtor.balance)), 20)

\* a slip: Math.max where Math.min belongs
SettlementAmount_Max(creditor, debtor) ==
  IF creditor.balance > Abs(debtor.balance)
  THEN creditor.balance ELSE Abs(debtor.balance)

\* a slip: the creditor is always paid in full
SettlementAmount_CreditorInFull(creditor, debtor) == creditor.balance

SettlementAmount(creditor, debtor) == Min(creditor.balance, Abs(debtor.balance))

\* a slip: the two ends of a debt exchanged
Debt_Reversed(debtor, creditor, settlementAmount) ==
  [from_user |-> creditor.user_id, to_user |-> debtor.user_id,
   amount |-> ToFixed2(settlementAmount)]

\* the entry pushed on debts
Debt(debtor, creditor, settlementAmount) ==
  [from_user |-> debtor.user_id, to_user |-> creditor.user_id,
   amount |-> ToFixed2(settlementAmount)]

\* the condition of the while loop
LoopCondition(st) ==
  st.creditorIndex <= Len(st.creditors) /\ st.debtorIndex <= Len(st.debtors)

\* one pass through the body of the while loop
Iteration(st) ==
  LET creditor == st.creditors[st.creditorIndex]
      debtor == st.debtors[st.debtorIndex]
      settlementAmount == SettlementAmount(creditor, debtor)
      emit == settlementAmount > EPSILON
      debts1 == IF emit
                THEN Append(st.debts, Debt(debtor, creditor, settlementAmount))
                ELSE st.debts
      creditors1 == IF emit
                    THEN [st.creditors EXCEPT
                            ![st.creditorIndex].balance = @ - settlementAmount]
                    ELSE st.creditors
      debtors1 == IF emit
                  THEN [st.debtors EXCEPT
                          ![st.debtorIndex].balance = @ + settlementAmount]
                  ELSE st.debtors
  IN [debts |-> debts1, creditors |-> creditors1, debtors |-> debtors1,
      creditorIndex |-> Advance(creditors1[st.creditorIndex].balance,
                                st.creditorIndex),
      debtorIndex |-> Advance(debtors1[st.debtorIndex].balance, st.debtorIndex)]

\* the while loop of calculateOptimalDebts; returned = FALSE when an
\* iteration neither emits nor advances an index, i.e. the loop never ends
RECURSIVE MatchLoop(_, _, _, _, _)
MatchLoop(creditors, debtors, creditorIndex, debtorIndex, debts) ==
  LET st == [debts |-> debts, creditors |-> creditors, debtors |-> debtors,
             creditorIndex |-> creditorIndex, debtorIndex |-> debtorIndex]
  IN IF ~LoopCondition(st)
     THEN [debts |-> debts, creditors |-> creditors, debtors |-> debtors,
           creditorIndex |-> creditorIndex, debtorIndex |-> debtorIndex,
           returned |-> TRUE]
     ELSE LET n == Iteration(st)
          IN IF n = st
             THEN [debts |-> debts, creditors |-> creditors, debtors |-> debtors,
                   creditorIndex |-> creditorIndex, debtorIndex |-> debtorIndex,
                   returned |-> FALSE]
             ELSE MatchLoop(n.creditors, n.debtors, n.creditorIndex,
                            n.debtorIndex, n.debts)

calculateOptimalDebts(balances) ==
  MatchLoop(SortDesc(SelectSeq(balances, IsCreditor)),
            SortAsc(SelectSeq(balances, IsDebtor)), 1, 1, <<>>)

\* ------------------------------------------------------ calculateGroupDebts
\* the balance map the handler builds: one entry per member, in the order
\* the membership query returned them (membersResult)
\* a slip: settlements counted with the sign of the balance view
DebtBalanceOf_ReceivedAdds(groupId, u) ==
  TotalPaid(groupId, u) - TotalShare(groupId, u)
    + TotalReceived(groupId, u) - TotalSettled(groupId, u)

DebtBalanceOf(groupId, u) ==
  TotalPaid(groupId, u) - TotalShare(groupId, u)
    + TotalSettled(groupId, u) - TotalReceived(groupId, u)

DebtBalances(groupId, membersResult) ==
  [i \in DOMAIN membersResult |->
     [user_id |-> membersResult[i],
      balance |-> DebtBalanceOf(groupId, membersResult[i])]]

\* a slip: a group without member rows reported as an error
calculateGroupDebts_NotFound(groupId, membersResult) ==
  IF Len(membersResult) = 0
  THEN [group_id |-> groupId, debts |-> <<>>, returned |-> FALSE]
  ELSE LET r == calculateOptimalDebts(DebtBalances(groupId, membersResult))
       IN [group_id |-> groupId, debts |-> r.debts, returned |-> r.returned]

calculateGroupDebts(groupId, membersResult) ==
  IF Len(membersResult) = 0
  THEN [group_id |-> groupId, debts |-> <<>>, returned |-> TRUE]
  ELSE LET r == calculateOptimalDebts(DebtBalances(groupId, membersResult))
       IN [group_id |-> groupId, debts |-> r.debts, returned |-> r.returned]

\* the membership query has no ORDER BY: any row order may come back
MemberOrders(groupId) == Orders(MemberIds(groupId))

\* --------------------------------------------------- calculateGroupBalances
\* users with any money movement in the group
LedgerUsers(groupId) ==
  {e.paid_by : e \in GroupExpenses(groupId)}
    \cup {p.user_id : p \in GroupShares(groupId)}
    \cup {s.from_user : s \in GroupSettlements(groupId)}
    \cup {s.to_user : s \in GroupSettlements(groupId)}

RECURSIVE SetToSeq(_)
SetToSeq(S) ==
  IF S = {} THEN <<>>
  ELSE LET m == CHOOSE x \in S : \A y \in S : x <= y
       IN <<m>> \o SetToSeq(S \ {m})

\* a slip: settlements counted with the sign calculateGroupDebts uses
BalanceOf_SettledAdds(groupId, u) ==
  TotalPaid(groupId, u) - TotalShare(groupId, u)
    + TotalSettled(groupId, u) - TotalReceived(groupId, u)

BalanceOf(groupId, u) ==
  TotalPaid(groupId, u) - TotalShare(groupId, u)
    + TotalReceived(groupId, u) - TotalSettled(groupId, u)

\* a slip: one entry per member instead of one per user of the ledger
calculateGroupBalances_MembersOnly(groupId) ==
  LET us == SetToSeq(MemberIds(groupId))
  IN [group_id |-> groupId,
      balances |-> [i \in DOMAIN us |->
                      [user_id |-> us[i], balance |-> BalanceOf(groupId, us[i])]]]

calculateGroupBalances(groupId) ==
  LET us == SetToSeq(LedgerUsers(groupId))
  IN [group_id |-> groupId,
      balances |-> [i \in DOMAIN us |->
                      [user_id |-> us[i], balance |-> BalanceOf(groupId, us[i])]]]

\* ------------------------------------------------------------------ inputs
\* the four accounts of the worked scenarios: Alice, Bob, Charlie, David
ScenarioUsers == 1..4
\* every account is registered before the ledger is used
usersTable == Users \cup ScenarioUsers
\* group ids a caller may pass: the ids groups can take and one no group has
GroupIdInputs == GroupIds \cup {MaxGroups + 1}
\* ids a caller may pass: the registered accounts and one id with no user row
UserIdInputs == Users \cup {Cardinality(usersTable) + 1}

\* participant lists in ascending user order (the handler treats the list as
\* a set of rows; only the row numbering depends on the order)
ParticipantLists(users, money, maxLen) ==
  {l \in UNION {[1..n -> [user_id : users, share_amount : money]] : n \in 0..maxLen} :
     \A i \in 1..(Len(l) - 1) : l[i].user_id <= l[i + 1].user_id}

ExpenseInputs ==
  [group_id : GroupIds, paid_by : Users, amount : InputMoney,
   participants : ParticipantLists(Users, InputMoney, MaxParticipants)]

SettlementInputs ==
  [group_id : GroupIds, from_user : Users, to_user : Users, amount : InputMoney]

\* an optional field is the empty sequence when undefined, <<value>> otherwise
Optional(S) == {<<>>} \cup {<<x>> : x \in S}

UpdateExpenseInputs ==
  [id : 1..MaxExpenses, amount : Optional(InputMoney), description : Optional({"text"})]

LedgerExpenseInputs ==
  [group_id : GroupIds, paid_by : Users, amount : LedgerMoney,
   participants : ParticipantLists(Users, LedgerMoney, MaxParticipants)]

LedgerSettlementInputs ==
  [group_id : GroupIds, from_user : Users, to_user : Users, amount : LedgerMoney]

\* the client's copy of the suggested debts it is working through
NoPlan == [active |-> FALSE, group_id |-> 0, remaining |-> <<>>]

\* what the caller of the last handler saw
Last(op, outcome) == [op |-> op, outcome |-> outcome]

\* no calculateGroupDebts call, no createExpense transaction and no
\* calculateOptimalDebts call is in flight
ZeroTotals == [u \in usersTable |-> 0]
NoRead ==
  [pc |-> "idle", group_id |-> 0, membersResult |-> <<>>,
   paymentsResult |-> ZeroTotals, sharesResult |-> ZeroTotals,
   settlementsFromResult |-> ZeroTotals, settlementsToResult |-> ZeroTotals,
   result |-> <<>>, seen |-> {}]
NoTx ==
  [active |-> FALSE, pc |-> "none", input |-> <<>>, id |-> 0,
   expenses |-> {}, participants |-> {}]
NoRun == [pc |-> "idle", balances |-> <<>>, debts |-> <<>>]

Init ==
  /\ groupsTable = {}
  /\ groupMembersTable = {}
  /\ expensesTable = {}
  /\ expenseParticipantsTable = {}
  /\ settlementsTable = {}
  /\ nextGroupId = 1
  /\ nextExpenseId = 1
  /\ nextSettlementId = 1
  /\ last = Last("none", "ok")
  /\ plan = NoPlan
  /\ read = NoRead
  /\ tx = NoTx
  /\ run = NoRun
  /\ userAccounts = {}

\* ------------------------------------------------------------- createGroup
createGroup(input) ==
  /\ IF input.created_by \notin usersTable
     THEN \* foreign key violation: the transaction rolls back; the id
          \* drawn from the serial is not given back
          /\ last' = Last("createGroup", "error")
          /\ nextGroupId' = nextGroupId + 1
          /\ UNCHANGED <<tables, nextExpenseId, nextSettlementId>>
     ELSE /\ groupsTable' = groupsTable \cup
               {[id |-> nextGroupId, created_by |-> input.created_by]}
          /\ groupMembersTable' = groupMembersTable \cup
               {[group_id |-> nextGroupId, user_id |-> input.created_by,
                 role |-> "admin"]}
          /\ nextGroupId' = nextGroupId + 1
          /\ last' = Last("createGroup", "ok")
          /\ UNCHANGED <<ledger, nextExpenseId, nextSettlementId>>
  /\ plan' = NoPlan

\* ---------------------------------------------------------- addGroupMember
addGroupMemberOutcome(input) ==
  IF ~\E g \in groupsTable : g.id = input.group_id THEN "group_not_found"
  ELSE IF input.user_id \notin usersTable THEN "user_not_found"
  ELSE IF IsMember(input.group_id, input.user_id) THEN "already_member"
  ELSE "ok"

addGroupMember(input) ==
  /\ IF addGroupMemberOutcome(input) = "ok"
     THEN groupMembersTable' = groupMembersTable \cup
            {[group_id |-> input.group_id, user_id |-> input.user_id,
              role |-> input.role]}
     ELSE UNCHANGED groupMembersTable
  /\ last' = Last("addGroupMember", addGroupMemberOutcome(input))
  /\ plan' = NoPlan
  /\ UNCHANGED <<groupsTable, ledger, serials>>

\* ------------------------------------------------------- removeGroupMember
removeGroupMember(input) ==
  LET hit == {m \in groupMembersTable :
                m.group_id = input.group_id /\ m.user_id = input.user_id}
  IN /\ groupMembersTable' = groupMembersTable \ hit
     /\ last' = Last("removeGroupMember", IF hit # {} THEN "true" ELSE "false")
     /\ plan' = NoPlan
     /\ UNCHANGED <<groupsTable, ledger, serials>>

\* ----------------------------------------------------------- createExpense
RECURSIVE TotalShares(_)
TotalShares(participants) ==
  IF participants = <<>> THEN 0
  ELSE Head(participants).share_amount + TotalShares(Tail(participants))

participantIds(input) ==
  [i \in DOMAIN input.participants |-> input.participants[i].user_id]

\* rows of group_members matched by inArray(user_id, participantIds)
groupMembersFound(input) ==
  {m \in groupMembersTable :
     m.group_id = input.group_id /\ m.user_id \in Range(participantIds(input))}

foundUserIds(input) == {m.user_id : m \in groupMembersFound(input)}

\* a slip: the error lists every participant
missingUserIds_All(input) == participantIds(input)

\* the ids the "are not members" error lists, in the order of the input
missingUserIds(input) ==
  SelectSeq(participantIds(input), LAMBDA id : id \notin foundUserIds(input))

\* a slip: the tolerance written as 0.1
ShareSumMismatch_Loose(totalShares, amount) ==
  Abs(totalShares - amount) > 10 * ShareTolerance

ShareSumMismatch(totalShares, amount) == Abs(totalShares - amount) > ShareTolerance

createExpenseOutcome(input) ==
  IF ~\E g \in groupsTable : g.id = input.group_id THEN "group_not_found"
  ELSE IF ~(IsMember(input.group_id, input.paid_by) /\ input.paid_by \in usersTable)
  THEN "payer_not_member"
  ELSE IF Cardinality(groupMembersFound(input)) # Len(participantIds(input))
  THEN "participants_not_members"
  ELSE IF ShareSumMismatch(TotalShares(input.participants), input.amount)
  THEN "share_sum_mismatch"
  ELSE IF Len(input.participants) = 0
  THEN \* insert(...).values([]) throws; the transaction rolls back
       "no_participants"
  ELSE "ok"

createExpense(input) ==
  LET outcome == createExpenseOutcome(input)
  IN /\ IF outcome = "ok"
        THEN /\ expensesTable' = expensesTable \cup
                  {[id |-> nextExpenseId, group_id |-> input.group_id,
                    paid_by |-> input.paid_by, amount |-> Numeric2(input.amount)]}
             /\ expenseParticipantsTable' = expenseParticipantsTable \cup
                  {[expense_id |-> nextExpenseId, idx |-> i,
                    user_id |-> input.participants[i].user_id,
                    share_amount |-> Numeric2(input.participants[i].share_amount)]
                     : i \in DOMAIN input.participants}
             /\ nextExpenseId' = nextExpenseId + 1
        ELSE UNCHANGED <<expensesTable, expenseParticipantsTable, nextExpenseId>>
     /\ last' = Last("createExpense", outcome)
     /\ plan' = NoPlan
     /\ UNCHANGED <<groupsTable, groupMembersTable, settlementsTable,
                    nextGroupId, nextSettlementId>>

\* ----------------------------------------------------------- updateExpense
updateExpense(input) ==
  LET hit == {e \in expensesTable : e.id = input.id}
      updateData == [amount |-> input.amount, description |-> input.description]
      noFields == updateData.amount = <<>> /\ updateData.description = <<>>
  IN /\ IF noFields \/ hit = {}
        THEN /\ last' = Last("updateExpense", "null")
             /\ UNCHANGED expensesTable
        ELSE /\ expensesTable' =
                  {IF e \in hit /\ updateData.amount # <<>>
                   THEN [e EXCEPT !.amount = Numeric2(updateData.amount[1])]
                   ELSE e : e \in expensesTable}
             /\ last' = Last("updateExpense", "ok")
     /\ plan' = NoPlan
     /\ UNCHANGED <<groupsTable, groupMembersTable, expenseParticipantsTable,
                    settlementsTable, serials>>

\* ----------------------------------------------------------- deleteExpense
\* a slip: the participant rows of a deleted expense stay behind
deleteExpense_NoCascade(expenseId) ==
  LET hit == {e \in expensesTable : e.id = expenseId}
  IN /\ expensesTable' = expensesTable \ hit
     /\ last' = Last("deleteExpense", IF hit # {} THEN "true" ELSE "false")
     /\ plan' = NoPlan
     /\ UNCHANGED <<groupsTable, groupMembersTable, expenseParticipantsTable,
                    settlementsTable, serials>>

deleteExpense(expenseId) ==
  LET hit == {e \in expensesTable : e.id = expenseId}
  IN /\ expensesTable' = expensesTable \ hit
     \* ON DELETE CASCADE on expense_participants.expense_id
     /\ expenseParticipantsTable' =
          {p \in expenseParticipantsTable : p.expense_id # expenseId}
     /\ last' = Last("deleteExpense", IF hit # {} THEN "true" ELSE "false")
     /\ plan' = NoPlan
     /\ UNCHANGED <<groupsTable, groupMembersTable, settlementsTable, serials>>

\* -------------------------------------------------------- createSettlement
\* a slip: the distinctness check left out
createSettlementOutcome_NoSelfCheck(input) ==
  IF ~IsMember(input.group_id, input.from_user) THEN "from_not_member"
  ELSE IF ~IsMember(input.group_id, input.to_user) THEN "to_not_member"
  ELSE "ok"

\* a slip: a payer who owes nothing is turned away
createSettlementOutcome_DebtRequired(input) ==
  IF ~IsMember(input.group_id, input.from_user) THEN "from_not_member"
  ELSE IF ~IsMember(input.group_id, input.to_user) THEN "to_not_member"
  ELSE IF input.from_user = input.to_user THEN "self_settlement"
  ELSE IF DebtBalanceOf(input.group_id, input.from_user) >= 0 THEN "no_debt"
  ELSE "ok"

createSettlementOutcome(input) ==
  IF ~IsMember(input.group_id, input.from_user) THEN "from_not_member"
  ELSE IF ~IsMember(input.group_id, input.to_user) THEN "to_not_member"
  ELSE IF input.from_user = input.to_user THEN "self_settlement"
  ELSE "ok"

\* the handler itself; the caller's copy of the debts is updated by the caller
insertSettlement(input) ==
  /\ IF createSettlementOutcome(input) = "ok"
     THEN /\ settlementsTable' = settlementsTable \cup
               {[id |-> nextSettlementId, group_id |-> input.group_id,
                 from_user |-> input.from_user, to_user |-> input.to_user,
                 amount |-> Numeric2(input.amount)]}
          /\ nextSettlementId' = nextSettlementId + 1
     ELSE UNCHANGED <<settlementsTable, nextSettlementId>>
  /\ last' = Last("createSettlement", createSettlementOutcome(input))
  /\ UNCHANGED <<groupsTable, groupMembersTable, expensesTable,
                 expenseParticipantsTable, nextGroupId, nextExpenseId>>

createSettlement(input) ==
  /\ insertSettlement(input)
  /\ plan' = NoPlan

\* ---------------------------------------------- the client's settle-up flow
\* loadDebts: a caller fetches the suggested debts and keeps the list
loadDebts(groupId) ==
  /\ \E membersResult \in MemberOrders(groupId) :
       LET r == calculateGroupDebts(groupId, membersResult)
       IN /\ r.returned
          /\ plan' = [active |-> TRUE, group_id |-> groupId, remaining |-> r.debts]
  /\ last' = Last("calculateGroupDebts", "ok")
  /\ UNCHANGED <<tables, serials>>

\* the caller records the next debt of the list it fetched with
\* createSettlement; the list is the one a single calculateGroupDebts call
\* returned and is not fetched again in between
settleDebt ==
  /\ plan.active
  /\ plan.remaining # <<>>
  /\ LET debt == Head(plan.remaining)
         input == [group_id |-> plan.group_id, from_user |-> debt.from_user,
                   to_user |-> debt.to_user, amount |-> debt.amount]
     IN /\ insertSettlement(input)
        /\ plan' = IF createSettlementOutcome(input) = "ok"
                   THEN [plan EXCEPT !.remaining = Tail(@)]
                   ELSE NoPlan

\* ------------------------------------------------------------ specification
\* room left under the bound on rows ever inserted
ExpenseRoom(cap, input) ==
  createExpenseOutcome(input) = "ok" => nextExpenseId <= cap
SettlementRoom(cap, input) ==
  createSettlementOutcome(input) = "ok" => nextSettlementId <= cap

Next ==
  \/ \E u \in UserIdInputs :
       nextGroupId <= MaxGroups /\ createGroup([created_by |-> u])
         /\ UNCHANGED procs
  \/ \E g \in GroupIds, u \in UserIdInputs :
       addGroupMember([group_id |-> g, user_id |-> u, role |-> "member"])
         /\ UNCHANGED procs
  \/ \E g \in GroupIds, u \in Users :
       removeGroupMember([group_id |-> g, user_id |-> u])
         /\ UNCHANGED procs
  \/ \E input \in ExpenseInputs :
       ExpenseRoom(MaxExpenses, input) /\ createExpense(input)
         /\ UNCHANGED procs
  \/ \E input \in UpdateExpenseInputs : updateExpense(input) /\ UNCHANGED procs
  \/ \E id \in 1..MaxExpenses : deleteExpense(id) /\ UNCHANGED procs
  \/ \E input \in SettlementInputs :
       SettlementRoom(MaxSettlements, input) /\ createSettlement(input)
         /\ UNCHANGED procs

Spec == Init /\ [][Next]_vars

\* The ledger of one group whose members are all the users: the state after
\* createGroup by user 1 and addGroupMember for the others.  Only expenses
\* and settlements are created from here, and a client may settle up.
LedgerMembers(users) ==
  {[group_id |-> 1, user_id |-> u, role |-> IF u = 1 THEN "admin" ELSE "member"]
     : u \in users}

InitLedger ==
  /\ groupsTable = {[id |-> 1, created_by |-> 1]}
  /\ groupMembersTable = LedgerMembers(Users)
  /\ expensesTable = {}
  /\ expenseParticipantsTable = {}
  /\ settlementsTable = {}
  /\ nextGroupId = 2
  /\ nextExpenseId = 1
  /\ nextSettlementId = 1
  /\ last = Last("addGroupMember", "ok")
  /\ plan = NoPlan
  /\ read = NoRead
  /\ tx = NoTx
  /\ run = NoRun
  /\ userAccounts = {}

NextLedger ==
  \/ \E input \in LedgerExpenseInputs :
       ExpenseRoom(MaxLedgerExpenses, input) /\ createExpense(input)
         /\ UNCHANGED procs
  \/ \E input \in LedgerSettlementInputs :
       SettlementRoom(MaxSettlements, input) /\ createSettlement(input)
         /\ UNCHANGED procs
  \/ loadDebts(1) /\ UNCHANGED procs
  \/ settleDebt /\ UNCHANGED procs

SpecLedger == InitLedger /\ [][NextLedger]_vars

\* ------------------------------------------------------ the worked scenarios
\* One group whose members are Alice, Bob, Charlie and David (users 1..4).
\* Expenses are equal splits among the first k members; amounts are whole
\* currency units: 5.00 is 5000 mills.
Alice == 1
Bob == 2
Charlie == 3
David == 4

EqualSplit(k, share) == [i \in 1..k |-> [user_id |-> i, share_amount |-> share]]

ScenarioExpenseInputs ==
  {[group_id |-> 1, paid_by |-> payer, amount |-> amount,
    participants |-> EqualSplit(k, share)] :
     payer \in {Alice, Bob}, amount \in {20000, 30000, 40000},
     k \in 2..4, share \in {5000, 10000}}

ScenarioSettlementInputs ==
  [group_id : {1}, from_user : {Alice, Bob}, to_user : {Alice, Bob},
   amount : {5000, 25000}]

InitScenario ==
  /\ groupsTable = {[id |-> 1, created_by |-> 1]}
  /\ groupMembersTable = LedgerMembers(ScenarioUsers)
  /\ expensesTable = {}
  /\ expenseParticipantsTable = {}
  /\ settlementsTable = {}
  /\ nextGroupId = 2
  /\ nextExpenseId = 1
  /\ nextSettlementId = 1
  /\ last = Last("addGroupMember", "ok")
  /\ plan = NoPlan
  /\ read = NoRead
  /\ tx = NoTx
  /\ run = NoRun
  /\ userAccounts = {}

NextScenario ==
  \/ \E input \in ScenarioExpenseInputs :
       ExpenseRoom(MaxLedgerExpenses, input) /\ createExpense(input)
         /\ UNCHANGED procs
  \/ \E input \in ScenarioSettlementInputs :
       SettlementRoom(MaxSettlements, input) /\ createSettlement(input)
         /\ UNCHANGED procs

SpecScenario == InitScenario /\ [][NextScenario]_vars

\* the records of a group, without their row ids
ExpenseFacts(groupId) ==
  {[paid_by |-> e.paid_by, amount |-> e.amount,
    shares |-> {<<p.user_id, p.share_amount>> :
                  p \in {x \in expenseParticipantsTable : x.expense_id = e.id}}]
     : e \in GroupExpenses(groupId)}

SettlementFacts(groupId) ==
  {[from_user |-> t.from_user, to_user |-> t.to_user, amount |-> t.amount]
     : t \in GroupSettlements(groupId)}

\* the group holds exactly these expenses and these settlements, once each
OnlyRecords(groupId, expenseFacts, settlementFacts) ==
  /\ ExpenseFacts(groupId) = expenseFacts
  /\ Cardinality(GroupExpenses(groupId)) = Cardinality(expenseFacts)
  /\ SettlementFacts(groupId) = settlementFacts
  /\ Cardinality(GroupSettlements(groupId)) = Cardinality(settlementFacts)

SplitFact(payer, amount, k, share) ==
  [paid_by |-> payer, amount |-> amount,
   shares |-> {<<i, share>> : i \in 1..k}]

BalanceEntries(groupId) ==
  Range(calculateGroupBalances(groupId).balances)

\* ================================================================== claims
SuggestedDebts(groupId) ==
  {calculateGroupDebts(groupId, membersResult) :
     membersResult \in MemberOrders(groupId)}

DebtsTo(debts, u) == SumDebts(SelectSeq(debts, LAMBDA d : d.to_user = u))
DebtsFrom(debts, u) == SumDebts(SelectSeq(debts, LAMBDA d : d.from_user = u))

\* C1 (as claimed): in a ledger built only by createExpense and
\* createSettlement, the balances of the members of a group sum to zero
\* within 0.01.
C1_ZeroSum ==
  \A g \in GroupIds :
    Abs(SumBalance(DebtBalances(g, SetToSeq(MemberIds(g))))) <= EPSILON

\* C2 (as claimed): for every user with a balance entry, what the suggested
\* debts pay to the user minus what they take from the user equals the
\* user's balance from calculateGroupBalances within 0.01.
C2_DebtConservation ==
  \A g \in GroupIds : \A r \in SuggestedDebts(g) :
    r.returned =>
      \A b \in BalanceEntries(g) :
        Abs(DebtsTo(r.debts, b.user_id) - DebtsFrom(r.debts, b.user_id) - b.balance)
          <= EPSILON

\* every money movement that touches user u, as a signed amount
Movements(groupId, u) ==
  {<<"paid", e.id, 0, e.amount>> : e \in {x \in GroupExpenses(groupId) : x.paid_by = u}}
    \cup {<<"share", p.expense_id, p.idx, -p.share_amount>> :
            p \in {x \in GroupShares(groupId) : x.user_id = u}}
    \cup {<<"received", t.id, 0, t.amount>> :
            t \in {x \in GroupSettlements(groupId) : x.to_user = u}}
    \cup {<<"settled", t.id, 0, -t.amount>> :
            t \in {x \in GroupSettlements(groupId) : x.from_user = u}}

RECURSIVE SumMovements(_)
SumMovements(ms) ==
  IF ms = {} THEN 0
  ELSE LET m == CHOOSE x \in ms : TRUE
       IN m[4] + SumMovements(ms \ {m})

SettlementCase ==
  OnlyRecords(1, {SplitFact(Alice, 20000, 2, 10000)},
              {[from_user |-> Bob, to_user |-> Alice, amount |-> 5000]})

\* every stored settlement moves the balances calculateGroupDebts computes:
\* from_user up by the amount, to_user down by it, the others not at all
C4_SettlementShiftsBalances ==
  [][\A t \in settlementsTable' \ settlementsTable :
       \A u \in MemberIds(t.group_id) :
         DebtBalanceOf(t.group_id, u)' =
           DebtBalanceOf(t.group_id, u)
             + (IF u = t.from_user THEN t.amount ELSE 0)
             - (IF u = t.to_user THEN t.amount ELSE 0)]_vars

\* C4: a createSettlement that succeeds raises the balance calculateGroupDebts
\* gives from_user by the stored amount and lowers to_user's by it, leaving
\* the other members' balances alone; after Alice pays 20.00 split 10/10 with
\* Bob and Bob settles 5.00 to Alice the balances are Alice +5.00, Bob -5.00
\* and the only suggested debt is Bob to Alice for 5.00.
C4_SettlementAdjustment ==
  /\ C4_SettlementShiftsBalances
  /\ [](SettlementCase =>
          /\ DebtBalanceOf(1, Alice) = 5000
          /\ DebtBalanceOf(1, Bob) = -5000
          /\ \A r \in SuggestedDebts(1) :
               /\ r.returned
               /\ r.debts = <<[from_user |-> Bob, to_user |-> Alice, amount |-> 5000]>>)

\* C4 witness: the settlement of the worked case has just been stored
C4_Witness == SettlementCase /\ last = Last("createSettlement", "ok")

\* Alice paid 40 split 10/10/10/10 and Bob paid 20 split 5/5/5/5
MinimizationCase ==
  OnlyRecords(1, {SplitFact(Alice, 40000, 4, 10000), SplitFact(Bob, 20000, 4, 5000)}, {})

\* C5 (as claimed): with Alice paying 40 split 10/10/10/10 and Bob paying 20
\* split 5/5/5/5, calculateGroupDebts returns exactly 2 debts, totalling 30,
\* none with Alice or Bob as from_user.
C5_TwoDebts ==
  MinimizationCase =>
    \A r \in SuggestedDebts(1) :
      /\ r.returned
      /\ Len(r.debts) = 2
      /\ SumDebts(r.debts) = 30000
      /\ \A d \in Range(r.debts) : d.from_user \notin {Alice, Bob}

\* C5 (amended): in that case the balances are Alice +25, Bob +5, Charlie -15,
\* David -15 and calculateGroupDebts returns exactly 3 debts: one of Charlie
\* and David pays Alice 15, the other pays Alice 10 and Bob 5; the amounts
\* total 30 and no debt has Alice or Bob as from_user.
C5_ThreeDebts ==
  MinimizationCase =>
    /\ DebtBalanceOf(1, Alice) = 25000 /\ DebtBalanceOf(1, Bob) = 5000
    /\ DebtBalanceOf(1, Charlie) = -15000 /\ DebtBalanceOf(1, David) = -15000
    /\ \A r \in SuggestedDebts(1) :
         /\ r.returned
         /\ Len(r.debts) = 3
         /\ SumDebts(r.debts) = 30000
         /\ \A d \in Range(r.debts) : d.from_user \notin {Alice, Bob}
         /\ \E first, second \in {Charlie, David} :
              /\ first # second
              /\ r.debts = <<[from_user |-> first, to_user |-> Alice, amount |-> 15000],
                             [from_user |-> second, to_user |-> Alice, amount |-> 10000],
                             [from_user |-> second, to_user |-> Bob, amount |-> 5000]>>

\* C5 witness: the second expense of the case has just been stored
C5_Witness == MinimizationCase /\ last = Last("createExpense", "ok")

\* every debt of the list one calculateGroupDebts call returned is recorded
SettledUp == plan.active /\ plan.remaining = <<>>

\* C6 (as claimed): once a client has recorded every debt calculateGroupDebts
\* returned for a group with createSettlement, and nothing else was written
\* meanwhile, every member's balance is within 0.01 of zero and the next
\* calculateGroupDebts returns an empty list.
C6_SettlingClears ==
  SettledUp =>
    /\ \A u \in MemberIds(plan.group_id) :
         Abs(DebtBalanceOf(plan.group_id, u)) <= EPSILON
    /\ \A r \in SuggestedDebts(plan.group_id) : r.returned /\ r.debts = <<>>

\* C7: no suggested debt has from_user = to_user; no stored settlement has
\* from_user = to_user; createSettlement rejects every input with
\* from_user = to_user.
C7_NoSelfPayment ==
  /\ \A t \in settlementsTable : t.from_user # t.to_user
  /\ \A g \in GroupIds : \A r \in SuggestedDebts(g) :
       \A d \in Range(r.debts) : d.from_user # d.to_user
  /\ \A input \in SettlementInputs :
       input.from_user = input.to_user => createSettlementOutcome(input) # "ok"

\* C7 witness: a self-settlement was rejected while a debt is suggested
C7_Witness ==
  /\ last = Last("createSettlement", "self_settlement")
  /\ \E g \in GroupIds : \E r \in SuggestedDebts(g) : r.debts # <<>>

\* C8: createExpense rejects every input whose shares sum to a value more
\* than 0.01 away from the amount, and a rejected createExpense leaves the
\* expense rows and the participant rows as they were.
C8_ShareSumEnforcement ==
  /\ [](\A input \in ExpenseInputs :
          Abs(TotalShares(input.participants) - input.amount) > 10
            => createExpenseOutcome(input) # "ok")
  /\ [][(last'.op = "createExpense" /\ last'.outcome # "ok")
          => UNCHANGED <<expensesTable, expenseParticipantsTable>>]_vars

\* C8 witness: a createExpense was rejected for its share sum, nothing stored
C8_Witness ==
  /\ last = Last("createExpense", "share_sum_mismatch")
  /\ expensesTable = {} /\ expenseParticipantsTable = {}

\* C9 (as claimed): the shares stored for an expense sum to the expense's
\* stored amount within 0.01.
C9_StoredShareSum ==
  \A e \in expensesTable :
    Abs(SumShare({p \in expenseParticipantsTable : p.expense_id = e.id}) - e.amount)
      <= 10

C11_MembershipLeavesDebts ==
  [][(last'.op \in {"addGroupMember", "removeGroupMember"})
       => /\ UNCHANGED ledger
          /\ \A g \in GroupIds : SuggestedDebts(g)' = SuggestedDebts(g)]_vars

\* -------------------------------- calculateGroupDebts, one query at a time
\* The handler awaits five SELECTs one after the other, outside any
\* transaction: each query sees the rows committed when it runs, and other
\* handlers may commit between two of them.  read.seen collects what
\* calculateGroupDebts would return for every ledger state that existed
\* while the call was running: each state a commit replaced, and the state
\* at the last query.
readMembers(groupId) ==
  /\ read.pc \in {"idle", "done"}
  /\ \E membersResult \in MemberOrders(groupId) :
       read' = IF Len(membersResult) = 0
               THEN [NoRead EXCEPT !.pc = "done", !.group_id = groupId,
                                   !.result = [group_id |-> groupId, debts |-> <<>>,
                                               returned |-> TRUE],
                                   !.seen = SuggestedDebts(groupId)]
               ELSE [NoRead EXCEPT !.pc = "payments", !.group_id = groupId,
                                   !.membersResult = membersResult]
  /\ UNCHANGED <<tables, serials, last, plan, tx, run, userAccounts>>

readPayments ==
  /\ read.pc = "payments"
  /\ read' = [read EXCEPT !.pc = "shares",
                          !.paymentsResult =
                             [u \in usersTable |-> TotalPaid(read.group_id, u)]]
  /\ UNCHANGED <<tables, serials, last, plan, tx, run, userAccounts>>

readShares ==
  /\ read.pc = "shares"
  /\ read' = [read EXCEPT !.pc = "settlementsFrom",
                          !.sharesResult =
                             [u \in usersTable |-> TotalShare(read.group_id, u)]]
  /\ UNCHANGED <<tables, serials, last, plan, tx, run, userAccounts>>

readSettlementsFrom ==
  /\ read.pc = "settlementsFrom"
  /\ read' = [read EXCEPT !.pc = "settlementsTo",
                          !.settlementsFromResult =
                             [u \in usersTable |-> TotalSettled(read.group_id, u)]]
  /\ UNCHANGED <<tables, serials, last, plan, tx, run, userAccounts>>

\* the balance map built from the five query results
ReadBalances(r, settlementsToResult) ==
  [i \in DOMAIN r.membersResult |->
     LET u == r.membersResult[i]
     IN [user_id |-> u,
         balance |-> r.paymentsResult[u] - r.sharesResult[u]
                       + r.settlementsFromResult[u] - settlementsToResult[u]]]

\* the last query, the balance map and calculateOptimalDebts; the locals of
\* the call are gone once it has returned
readSettlementsTo ==
  /\ read.pc = "settlementsTo"
  /\ LET settlementsToResult ==
           [u \in usersTable |-> TotalReceived(read.group_id, u)]
         r == calculateOptimalDebts(ReadBalances(read, settlementsToResult))
     IN read' = [NoRead EXCEPT !.pc = IF r.returned THEN "done" ELSE "looping",
                               !.group_id = read.group_id,
                               !.result = [group_id |-> read.group_id,
                                           debts |-> r.debts,
                                           returned |-> r.returned],
                               !.seen = read.seen \cup SuggestedDebts(read.group_id)]
  /\ UNCHANGED <<tables, serials, last, plan, tx, run, userAccounts>>

\* a commit while a call is running: the ledger state it replaces joins
\* read.seen (a rejected call commits nothing)
ObserveCommit ==
  IF read.pc \in {"idle", "done", "looping"} \/ ledger' = ledger
  THEN UNCHANGED read
  ELSE read' = [read EXCEPT !.seen = @ \cup SuggestedDebts(read.group_id)]

\* whole expenses of 0.02 or 0.04 owed by one participant
SnapshotExpenseInputs ==
  {[group_id |-> 1, paid_by |-> payer, amount |-> amount,
    participants |-> <<[user_id |-> u, share_amount |-> amount]>>] :
     payer \in Users, u \in Users, amount \in {20, 40}}

SnapshotSettlementInputs ==
  [group_id : {1}, from_user : Users, to_user : Users, amount : {20}]

\* One group with all users as members; expenses and settlements are written
\* and deleted while calculateGroupDebts calls run.
NextSnapshot ==
  \/ \E input \in SnapshotExpenseInputs :
       ExpenseRoom(MaxLedgerExpenses, input) /\ createExpense(input)
         /\ ObserveCommit /\ UNCHANGED <<tx, run, userAccounts>>
  \/ \E input \in SnapshotSettlementInputs :
       SettlementRoom(MaxSettlements, input) /\ createSettlement(input)
         /\ ObserveCommit /\ UNCHANGED <<tx, run, userAccounts>>
  \/ \E id \in 1..MaxLedgerExpenses :
       deleteExpense(id) /\ ObserveCommit /\ UNCHANGED <<tx, run, userAccounts>>
  \/ readMembers(1)
  \/ readPayments
  \/ readShares
  \/ readSettlementsFrom
  \/ readSettlementsTo

SpecSnapshot == InitLedger /\ [][NextSnapshot]_vars

\* C12 (as claimed): a calculateGroupDebts call that runs while expenses and
\* settlements are created and deleted returns what the handler returns for
\* one of the committed ledger states that existed during the call.
C12_SnapshotReads ==
  read.pc = "done" => read.result \in read.seen

\* ------------------------------- createExpense, one statement at a time
\* The handler runs inside db.transaction: the rows its INSERTs write are
\* private to the transaction (staged) until the callback returns and the
\* transaction commits; a throw inside the callback rolls it back.
\* a slip: the statements run on db, outside the transaction
TxInsert_AutoCommit(committed, staged, rows) ==
  [committed |-> committed \cup rows, staged |-> staged]

TxInsert(committed, staged, rows) ==
  [committed |-> committed, staged |-> staged \cup rows]

\* the three validating queries, the share-sum check and INSERT INTO
\* expenses; the serial value is drawn whether or not the transaction commits
beginCreateExpense(input) ==
  LET outcome == createExpenseOutcome(input)
      w == TxInsert(expensesTable, {},
                    {[id |-> nextExpenseId, group_id |-> input.group_id,
                      paid_by |-> input.paid_by, amount |-> Numeric2(input.amount)]})
  IN /\ ~tx.active
     /\ \/ /\ outcome \notin {"ok", "no_participants"}
           /\ last' = Last("createExpense", outcome)
           /\ UNCHANGED <<expensesTable, nextExpenseId, tx>>
        \/ \* inArray(column, []) throws in the drizzle releases that reject
           \* an empty list
           /\ outcome = "no_participants"
           /\ last' = Last("createExpense", outcome)
           /\ UNCHANGED <<expensesTable, nextExpenseId, tx>>
        \/ /\ outcome \in {"ok", "no_participants"}
           /\ nextExpenseId <= MaxLedgerExpenses
           /\ expensesTable' = w.committed
           /\ tx' = [active |-> TRUE, pc |-> "participants", input |-> input,
                     id |-> nextExpenseId, expenses |-> w.staged,
                     participants |-> {}]
           /\ nextExpenseId' = nextExpenseId + 1
           /\ UNCHANGED last
     /\ UNCHANGED <<groupsTable, groupMembersTable, expenseParticipantsTable,
                    settlementsTable, nextGroupId, nextSettlementId, plan,
                    read, run, userAccounts>>

\* INSERT INTO expense_participants; values([]) throws and the transaction
\* rolls back
insertParticipants ==
  LET w == TxInsert(expenseParticipantsTable, {},
                    {[expense_id |-> tx.id, idx |-> i,
                      user_id |-> tx.input.participants[i].user_id,
                      share_amount |-> Numeric2(tx.input.participants[i].share_amount)]
                       : i \in DOMAIN tx.input.participants})
  IN /\ tx.active /\ tx.pc = "participants"
     /\ IF Len(tx.input.participants) = 0
        THEN /\ tx' = NoTx
             /\ last' = Last("createExpense", "no_participants")
             /\ UNCHANGED expenseParticipantsTable
        ELSE /\ expenseParticipantsTable' = w.committed
             /\ tx' = [tx EXCEPT !.pc = "commit", !.participants = w.staged]
             /\ UNCHANGED last
     /\ UNCHANGED <<groupsTable, groupMembersTable, expensesTable,
                    settlementsTable, serials, plan, read, run, userAccounts>>

\* the callback returns: COMMIT publishes the staged rows together
commitCreateExpense ==
  /\ tx.active /\ tx.pc = "commit"
  /\ expensesTable' = expensesTable \cup tx.expenses
  /\ expenseParticipantsTable' = expenseParticipantsTable \cup tx.participants
  /\ tx' = NoTx
  /\ last' = Last("createExpense", "ok")
  /\ UNCHANGED <<groupsTable, groupMembersTable, settlementsTable, serials,
                 plan, read, run, userAccounts>>

\* One group with all users as members; createExpense transactions run
\* statement by statement while deleteExpense calls commit in between.
NextTransaction ==
  \/ \E input \in LedgerExpenseInputs : beginCreateExpense(input)
  \/ insertParticipants
  \/ commitCreateExpense
  \/ \E id \in 1..MaxLedgerExpenses : deleteExpense(id) /\ UNCHANGED procs

SpecTransaction == InitLedger /\ [][NextTransaction]_vars

\* the participant rows createExpense stores for its input under expense id
ParticipantRowsOf(input, id) ==
  {[expense_id |-> id, idx |-> i, user_id |-> input.participants[i].user_id,
    share_amount |-> Numeric2(input.participants[i].share_amount)]
     : i \in DOMAIN input.participants}

\* C13: the committed tables, which are all a concurrent reader can see,
\* never hold an expense row without participant rows; an expense row and
\* the participant rows of its input become visible in the same step, all of
\* them at once, and a createExpense that fails leaves no row behind.
C13_AtomicExpenseCreation ==
  /\ [](\A e \in expensesTable :
          \E p \in expenseParticipantsTable : p.expense_id = e.id)
  /\ [][LET newExpenses == expensesTable' \ expensesTable
            newParticipants == expenseParticipantsTable' \ expenseParticipantsTable
        IN (newExpenses # {} \/ newParticipants # {})
             => /\ last' = Last("createExpense", "ok")
                /\ \E e \in newExpenses :
                     /\ newExpenses = {e}
                     /\ e.id = tx.id
                     /\ newParticipants = ParticipantRowsOf(tx.input, e.id)
                     /\ newParticipants # {}]_vars

\* C13 witness: the expense insert ran (its serial value is gone) and the
\* transaction was rolled back by the failing participant insert
C13_Witness ==
  /\ last = Last("createExpense", "no_participants")
  /\ nextExpenseId = 2
  /\ ~tx.active
  /\ expensesTable = {}

\* ------------------------------------------- calculateOptimalDebts alone
\* One call of calculateOptimalDebts on a list of balances: one entry per
\* user, user i at position i, with balances on both sides of the 0.01
\* threshold.
BalanceValues == {-40, -25, -20, -15, -10, 0, 10, 15, 20, 25, 40}

BalanceInputs ==
  UNION {{[i \in 1..n |-> [user_id |-> i, balance |-> f[i]]] :
            f \in [1..n -> BalanceValues]} : n \in 0..MaxBalances}

InitMinimizer ==
  /\ groupsTable = {}
  /\ groupMembersTable = {}
  /\ expensesTable = {}
  /\ expenseParticipantsTable = {}
  /\ settlementsTable = {}
  /\ nextGroupId = 1
  /\ nextExpenseId = 1
  /\ nextSettlementId = 1
  /\ last = Last("none", "ok")
  /\ plan = NoPlan
  /\ read = NoRead
  /\ tx = NoTx
  /\ userAccounts = {}
  /\ \E balances \in BalanceInputs :
       run = [pc |-> "called", balances |-> balances, debts |-> <<>>]

\* the call runs to its return statement, or loops for ever
runCalculateOptimalDebts ==
  /\ run.pc = "called"
  /\ LET r == calculateOptimalDebts(run.balances)
     IN run' = [run EXCEPT !.pc = IF r.returned THEN "returned" ELSE "looping",
                           !.debts = r.debts]
  /\ UNCHANGED <<tables, serials, last, plan, read, tx, userAccounts>>

NextMinimizer == runCalculateOptimalDebts

SpecMinimizer == InitMinimizer /\ [][NextMinimizer]_vars

\* users whose balance is outside the 0.01 tolerance
NonZeroBalances(balances) ==
  {i \in DOMAIN balances : Abs(balances[i].balance) > 10}

\* C14: the list calculateOptimalDebts returns has at most max(0, n - 1)
\* entries, n being the number of users whose balance is more than 0.01
\* away from zero.
C14_DebtCountBound ==
  run.pc = "returned" =>
    LET n == Cardinality(NonZeroBalances(run.balances))
    IN Len(run.debts) <= (IF n >= 1 THEN n - 1 ELSE 0)

\* C14 witness: three non-zero balances settled by two debts
C14_Witness ==
  /\ run.pc = "returned"
  /\ Cardinality(NonZeroBalances(run.balances)) = 3
  /\ Len(run.debts) = 2

\* C15 (as claimed): two calls of calculateGroupDebts for the same group with
\* no write in between return identical results.  Both calls read the same
\* records, so the claim is that the records of a state determine the
\* result: the calls a state allows all return one and the same list.
C15_RepeatedCallsAgree ==
  \A g \in GroupIds :
    \A first \in SuggestedDebts(g), second \in SuggestedDebts(g) : first = second

\* C16: for a group id that no group has, and for a group with no expenses
\* and no settlements, calculateGroupBalances returns an empty balance list
\* and calculateGroupDebts returns (it does not throw) an empty debt list,
\* each carrying the requested group_id.
C16_EmptyGroupEmptyResults ==
  \A g \in GroupIdInputs :
    (\/ g \notin {grp.id : grp \in groupsTable}
     \/ GroupExpenses(g) = {} /\ GroupSettlements(g) = {})
      => /\ calculateGroupBalances(g) = [group_id |-> g, balances |-> <<>>]
         /\ SuggestedDebts(g) =
              {[group_id |-> g, debts |-> <<>>, returned |-> TRUE]}

\* C16 witness: a group of two members whose only expense has been deleted
C16_Witness ==
  /\ \E grp \in groupsTable : Cardinality(MemberIds(grp.id)) = 2
  /\ expensesTable = {}
  /\ settlementsTable = {}
  /\ last = Last("deleteExpense", "true")

C18_SettlementAcceptance ==
  /\ [](\A input \in SettlementInputs :
          createSettlementOutcome(input) = "ok"
            <=> /\ IsMember(input.group_id, input.from_user)
                /\ IsMember(input.group_id, input.to_user)
                /\ input.from_user # input.to_user)
  /\ [][last'.op = "createSettlement" =>
          \A input \in SettlementInputs :
            createSettlement(input) =>
              IF createSettlementOutcome(input) = "ok"
              THEN /\ \E row \in settlementsTable' \ settlementsTable :
                        /\ settlementsTable' = settlementsTable \cup {row}
                        /\ row.group_id = input.group_id
                        /\ row.from_user = input.from_user
                        /\ row.to_user = input.to_user
                   /\ UNCHANGED <<groupsTable, groupMembersTable, expensesTable,
                                  expenseParticipantsTable>>
              ELSE UNCHANGED <<tables, serials>>]_vars

\* C18 witness: a settlement was accepted from a user who owed nothing: the
\* payer is owed money after an expense the payer covered
C18_Witness ==
  /\ last = Last("createSettlement", "ok")
  /\ \E t \in settlementsTable :
       /\ \E e \in expensesTable : e.paid_by = t.from_user
       /\ DebtBalanceOf(t.group_id, t.from_user) - t.amount > 0

\* ------------------------------------------------ expenses come and go
\* The ledger of one group with createExpense, createSettlement and
\* deleteExpense; the ids passed to deleteExpense include ids of expenses
\* already deleted and ids not yet given out.
NextExpenses ==
  \/ \E input \in LedgerExpenseInputs :
       ExpenseRoom(MaxLedgerExpenses, input) /\ createExpense(input)
         /\ UNCHANGED procs
  \/ \E input \in LedgerSettlementInputs :
       SettlementRoom(MaxSettlements, input) /\ createSettlement(input)
         /\ UNCHANGED procs
  \/ \E id \in 1..MaxLedgerExpenses : deleteExpense(id) /\ UNCHANGED procs

SpecExpenses == InitLedger /\ [][NextExpenses]_vars

\* C19: deleteExpense(id) returns true exactly when an expense with that id
\* existed; it removes that expense and all of its participant shares and
\* leaves every other expense, share and settlement unchanged; after it no
\* expense has the id, and ids are never given out again, so a repeated
\* deleteExpense(id) returns false and changes nothing.
C19_DeleteExpense ==
  /\ [](\A e \in expensesTable : e.id < nextExpenseId)
  /\ [][last'.op = "deleteExpense" =>
          \A id \in 1..MaxLedgerExpenses :
            deleteExpense(id) =>
              LET existed == \E e \in expensesTable : e.id = id
              IN /\ last'.outcome = (IF existed THEN "true" ELSE "false")
                 /\ expensesTable' = {e \in expensesTable : e.id # id}
                 /\ expenseParticipantsTable' =
                      {p \in expenseParticipantsTable : p.expense_id # id}
                 /\ \A p \in expenseParticipantsTable' :
                      \E e \in expensesTable' : e.id = p.expense_id
                 /\ UNCHANGED <<groupsTable, groupMembersTable,
                                settlementsTable, serials>>
                 /\ ~existed => UNCHANGED <<tables, serials>>]_vars

\* C19 witness: of two expenses one was deleted; the other, its shares and
\* a settlement are still there
C19_Witness ==
  /\ last = Last("deleteExpense", "true")
  /\ nextExpenseId = 3
  /\ Cardinality(expensesTable) = 1
  /\ expenseParticipantsTable # {}
  /\ settlementsTable # {}

\* ------------------------------------- createGroup, statement by statement
\* a slip: rows inserted before the failure survive it
Rollback_KeepsStaged(committed, staged) == committed \cup staged

\* what a table holds after ROLLBACK: the rows staged by the transaction
\* are discarded
Rollback(committed, staged) == committed

\* INSERT INTO groups; created_by references users, so an id without a user
\* row makes the statement throw; the serial value is drawn either way
beginCreateGroup(input) ==
  LET w == TxInsert(groupsTable, {},
                    {[id |-> nextGroupId, created_by |-> input.created_by]})
  IN /\ ~tx.active
     /\ nextGroupId <= MaxGroupSerial
     /\ nextGroupId' = nextGroupId + 1
     /\ IF input.created_by \notin usersTable
        THEN /\ groupsTable' = Rollback(groupsTable, {})
             /\ tx' = NoTx
             /\ last' = Last("createGroup", "error")
        ELSE /\ groupsTable' = w.committed
             /\ tx' = [active |-> TRUE, pc |-> "member", input |-> input,
                       id |-> nextGroupId, groups |-> w.staged, members |-> {}]
             /\ UNCHANGED last
     /\ UNCHANGED <<groupMembersTable, ledger, nextExpenseId, nextSettlementId,
                    plan, read, run, userAccounts>>

\* INSERT INTO group_members for the creator, role 'admin'; when the
\* statement throws the callback is left and the transaction rolls back
insertAdminMember ==
  LET w == TxInsert(groupMembersTable, {},
                    {[group_id |-> tx.id, user_id |-> tx.input.created_by,
                      role |-> "admin"]})
  IN /\ tx.active /\ tx.pc = "member"
     /\ \E thrown \in BOOLEAN :
          IF thrown
          THEN /\ groupsTable' = Rollback(groupsTable, tx.groups)
               /\ groupMembersTable' = Rollback(groupMembersTable, {})
               /\ tx' = NoTx
               /\ last' = Last("createGroup", "member_insert_failed")
          ELSE /\ groupMembersTable' = w.committed
               /\ tx' = [tx EXCEPT !.pc = "commit", !.members = w.staged]
               /\ UNCHANGED <<groupsTable, last>>
     /\ UNCHANGED <<ledger, serials, plan, read, run, userAccounts>>

\* the callback returns the group: COMMIT publishes both rows together
commitCreateGroup ==
  /\ tx.active /\ tx.pc = "commit"
  /\ groupsTable' = groupsTable \cup tx.groups
  /\ groupMembersTable' = groupMembersTable \cup tx.members
  /\ tx' = NoTx
  /\ last' = Last("createGroup", "ok")
  /\ UNCHANGED <<ledger, serials, plan, read, run, userAccounts>>

NextGroups ==
  \/ \E u \in UserIdInputs : beginCreateGroup([created_by |-> u])
  \/ insertAdminMember
  \/ commitCreateGroup

SpecGroups == Init /\ [][NextGroups]_vars

AdminRow(grp) == [group_id |-> grp.id, user_id |-> grp.created_by, role |-> "admin"]

\* C20: createGroup creates the group and the 'admin' membership of
\* created_by as one unit: every stored group has that membership and every
\* membership its group, the two rows of a call appear in the same step,
\* which is the one that reports success, and a call that fails (created_by
\* is not a user, or the membership insert throws) leaves no row behind.
C20_AtomicGroupCreation ==
  /\ [](/\ \A grp \in groupsTable : AdminRow(grp) \in groupMembersTable
        /\ \A m \in groupMembersTable : \E grp \in groupsTable : m = AdminRow(grp))
  /\ [][/\ IF groupsTable' # groupsTable \/ groupMembersTable' # groupMembersTable
            THEN /\ last' = Last("createGroup", "ok")
                 /\ \E grp \in groupsTable' \ groupsTable :
                      /\ groupsTable' = groupsTable \cup {grp}
                      /\ groupMembersTable' = groupMembersTable \cup {AdminRow(grp)}
                      /\ AdminRow(grp) \notin groupMembersTable
            ELSE TRUE
         /\ IF last'.op = "createGroup" /\ last'.outcome # "ok"
            THEN UNCHANGED tables
            ELSE TRUE]_vars

\* C20 witness: a call failed at the membership insert after its group
\* insert had run, and no row is stored
C20_Witness ==
  /\ last = Last("createGroup", "member_insert_failed")
  /\ ~tx.active
  /\ nextGroupId = 2
  /\ groupsTable = {} /\ groupMembersTable = {}

\* ------------------------------------------------------------- two groups
\* the list reads of a group; row order is not part of the result
getGroupExpenses(groupId) == {e \in expensesTable : e.group_id = groupId}

getGroupSettlements(groupId) ==
  {t \in settlementsTable : t.group_id = groupId /\ t.from_user \in usersTable}

getGroupMembers(groupId) ==
  {m \in groupMembersTable : m.group_id = groupId /\ m.user_id \in usersTable}

\* Several groups side by side, every user a member of each at the start;
\* expenses, settlements and memberships of all of them come and go.
TwoGroupIds == 1..(MaxGroups + 1)

InitTwoGroups ==
  /\ groupsTable = {[id |-> g, created_by |-> 1] : g \in TwoGroupIds}
  /\ groupMembersTable =
       {[group_id |-> g, user_id |-> u, role |-> IF u = 1 THEN "admin" ELSE "member"]
          : g \in TwoGroupIds, u \in Users}
  /\ expensesTable = {}
  /\ expenseParticipantsTable = {}
  /\ settlementsTable = {}
  /\ nextGroupId = MaxGroups + 2
  /\ nextExpenseId = 1
  /\ nextSettlementId = 1
  /\ last = Last("addGroupMember", "ok")
  /\ plan = NoPlan
  /\ read = NoRead
  /\ tx = NoTx
  /\ run = NoRun
  /\ userAccounts = {}

\* an expense paid by one user for another
TwoGroupExpenseInputs ==
  {input \in {[group_id |-> g, paid_by |-> payer, amount |-> 20,
               participants |-> <<[user_id |-> u, share_amount |-> 20]>>] :
                g \in TwoGroupIds, payer \in Users, u \in Users} :
     input.paid_by # input.participants[1].user_id}

TwoGroupSettlementInputs ==
  [group_id : TwoGroupIds, from_user : Users, to_user : Users, amount : {20}]

TwoGroupUpdateInputs ==
  [id : 1..MaxLedgerExpenses, amount : {<<40>>}, description : {<<>>}]

\* the admin stays; the other users leave and join
TwoGroupMemberInputs ==
  [group_id : TwoGroupIds, user_id : Users \ {1}, role : {"member"}]

\* what the four reads return for a group
GroupResults(groupId) ==
  [expenses |-> getGroupExpenses(groupId),
   settlements |-> getGroupSettlements(groupId),
   members |-> getGroupMembers(groupId),
   debts |-> SuggestedDebts(groupId)]

\* the group an expense id belongs to, 0 when no expense has the id
ExpenseGroup(expenseId) ==
  IF \E e \in expensesTable : e.id = expenseId
  THEN (CHOOSE e \in expensesTable : e.id = expenseId).group_id
  ELSE 0

\* a client reads the four results of every group just before a write
\* aimed at the records of group target
ObserveGroups(target) ==
  read' = [NoRead EXCEPT !.pc = "observed", !.group_id = target,
                         !.seen = [g \in TwoGroupIds |-> GroupResults(g)]]

NextTwoGroups ==
  \/ \E input \in TwoGroupExpenseInputs :
       ExpenseRoom(MaxLedgerExpenses, input) /\ createExpense(input)
         /\ ObserveGroups(input.group_id) /\ UNCHANGED <<tx, run, userAccounts>>
  \/ \E input \in TwoGroupUpdateInputs :
       updateExpense(input)
         /\ ObserveGroups(ExpenseGroup(input.id)) /\ UNCHANGED <<tx, run, userAccounts>>
  \/ \E id \in 1..MaxLedgerExpenses :
       deleteExpense(id)
         /\ ObserveGroups(ExpenseGroup(id)) /\ UNCHANGED <<tx, run, userAccounts>>
  \/ \E input \in TwoGroupSettlementInputs :
       SettlementRoom(MaxSettlements, input) /\ createSettlement(input)
         /\ ObserveGroups(input.group_id) /\ UNCHANGED <<tx, run, userAccounts>>
  \/ \E input \in TwoGroupMemberInputs :
       addGroupMember(input)
         /\ ObserveGroups(input.group_id) /\ UNCHANGED <<tx, run, userAccounts>>
  \/ \E input \in TwoGroupMemberInputs :
       removeGroupMember([group_id |-> input.group_id, user_id |-> input.user_id])
         /\ ObserveGroups(input.group_id) /\ UNCHANGED <<tx, run, userAccounts>>

SpecTwoGroups == InitTwoGroups /\ [][NextTwoGroups]_vars

\* C21: what getGroupExpenses, getGroupSettlements, getGroupMembers and
\* calculateGroupDebts return for a group depends only on the records of
\* that group: after a call that creates, changes or deletes an expense, a
\* settlement or a membership of one group, the four results of every other
\* group are what they were just before the call.
C21_GroupIsolation ==
  read.pc = "observed" =>
    \A g \in TwoGroupIds \ {read.group_id} : GroupResults(g) = read.seen[g]

\* C21 witness: group 1 has a suggested debt while the debtor also has a
\* share in an expense of group 2 that has just been changed
C21_Witness ==
  /\ read.pc = "observed" /\ read.group_id = 2
  /\ last = Last("updateExpense", "ok")
  /\ \E r \in SuggestedDebts(1) :
       /\ r.debts # <<>>
       /\ \E p \in GroupShares(2) : p.user_id = r.debts[1].from_user

\* C22 (as claimed): calculateOptimalDebts terminates for every balance
\* list: no call is left in an iteration that advances neither index.
C22_Terminates == run.pc # "looping"

\* ------------------------------------ calculateOptimalDebts, pass by pass
\* One call of calculateOptimalDebts run one loop iteration at a time.  The
\* indices count from 1.  A loop that no longer changes anything is
\* followed for MaxIterations passes.
InitIterations ==
  /\ groupsTable = {}
  /\ groupMembersTable = {}
  /\ expensesTable = {}
  /\ expenseParticipantsTable = {}
  /\ settlementsTable = {}
  /\ nextGroupId = 1
  /\ nextExpenseId = 1
  /\ nextSettlementId = 1
  /\ last = Last("none", "ok")
  /\ plan = NoPlan
  /\ read = NoRead
  /\ tx = NoTx
  /\ userAccounts = {}
  /\ \E balances \in BalanceInputs :
       run = [pc |-> "called", balances |-> balances, debts |-> <<>>,
              creditors |-> <<>>, debtors |-> <<>>,
              creditorIndex |-> 0, debtorIndex |-> 0, iterations |-> 0]

\* the two filters, the two sorts and the initial indices
startLoop ==
  /\ run.pc = "called"
  /\ run' = [run EXCEPT !.pc = "loop",
                        !.creditors = SortDesc(SelectSeq(run.balances, IsCreditor)),
                        !.debtors = SortAsc(SelectSeq(run.balances, IsDebtor)),
                        !.creditorIndex = 1, !.debtorIndex = 1]
  /\ UNCHANGED <<tables, serials, last, plan, read, tx, userAccounts>>

LoopState(r) ==
  [debts |-> r.debts, creditors |-> r.creditors, debtors |-> r.debtors,
   creditorIndex |-> r.creditorIndex, debtorIndex |-> r.debtorIndex]

\* one iteration of the while loop
iterate ==
  /\ run.pc = "loop"
  /\ LoopCondition(LoopState(run))
  /\ run.iterations < MaxIterations
  /\ LET n == Iteration(LoopState(run))
     IN run' = [run EXCEPT !.debts = n.debts, !.creditors = n.creditors,
                           !.debtors = n.debtors,
                           !.creditorIndex = n.creditorIndex,
                           !.debtorIndex = n.debtorIndex,
                           !.iterations = @ + 1]
  /\ UNCHANGED <<tables, serials, last, plan, read, tx, userAccounts>>

\* the loop condition is false: return debts
returnDebts ==
  /\ run.pc = "loop"
  /\ ~LoopCondition(LoopState(run))
  /\ run' = [run EXCEPT !.pc = "returned"]
  /\ UNCHANGED <<tables, serials, last, plan, read, tx, userAccounts>>

NextIterations == startLoop \/ iterate \/ returnDebts

SpecIterations == InitIterations /\ [][NextIterations]_vars

\* the balance the call was given for a user
InputBalance(u) ==
  LET hits == {i \in DOMAIN run.balances : run.balances[i].user_id = u}
  IN run.balances[CHOOSE i \in hits : TRUE].balance

\* C23: every debt emitted has as from_user a user whose input balance is
\* below -0.01 and as to_user a user whose input balance is above +0.01; a
\* user whose balance is within 0.01 of zero appears in no debt, and no user
\* is from_user of one debt and to_user of another.
C23_DebtDirection ==
  /\ \A d \in Range(run.debts) :
       /\ InputBalance(d.from_user) < -10
       /\ InputBalance(d.to_user) > 10
  /\ \A i \in DOMAIN run.balances :
       Abs(run.balances[i].balance) <= 10 =>
         \A d \in Range(run.debts) :
           /\ d.from_user # run.balances[i].user_id
           /\ d.to_user # run.balances[i].user_id
  /\ \A d1 \in Range(run.debts), d2 \in Range(run.debts) :
       d1.from_user # d2.to_user

\* C23 witness: a creditor was paid by one debtor while a third user, at
\* exactly -0.01, stayed out
C23_Witness ==
  /\ run.pc = "returned"
  /\ Len(run.balances) = 3
  /\ Len(run.debts) = 1
  /\ \E i \in DOMAIN run.balances : run.balances[i].balance = -10

\* C24: an iteration emits a debt only when min(creditor's remaining
\* balance, |debtor's remaining balance|) exceeds 0.01; it emits at most one,
\* and the amount emitted is strictly positive and a whole number of cents.
C24_DebtAmounts ==
  [][run.pc = "loop" /\ run'.pc = "loop" =>
       LET creditor == run.creditors[run.creditorIndex]
           debtor == run.debtors[run.debtorIndex]
       IN /\ Len(run'.debts) \in {Len(run.debts), Len(run.debts) + 1}
          /\ Len(run'.debts) > Len(run.debts) =>
               /\ Min(creditor.balance, Abs(debtor.balance)) > 10
               /\ run'.debts[Len(run'.debts)].amount > 0
               /\ run'.debts[Len(run'.debts)].amount % 10 = 0]_vars

\* C24 witness: a remaining balance of 0.015 was emitted as a debt of 0.02
C24_Witness ==
  /\ run.pc = "returned"
  /\ \E d \in Range(run.debts) :
       d.amount = 20 /\ InputBalance(d.from_user) = -15

\* what is left unsettled for the user at position i of the input when the
\* call returns
Remaining(i) ==
  LET u == run.balances[i].user_id
      inCreditors == {k \in DOMAIN run.creditors : run.creditors[k].user_id = u}
      inDebtors == {k \in DOMAIN run.debtors : run.debtors[k].user_id = u}
  IN IF inCreditors # {}
     THEN run.creditors[CHOOSE k \in inCreditors : TRUE].balance
     ELSE IF inDebtors # {}
     THEN run.debtors[CHOOSE k \in inDebtors : TRUE].balance
     ELSE run.balances[i].balance

\* C25 (as claimed): when the input balances sum to zero, the loop ends with
\* both the creditor list and the debtor list exhausted, and every user's
\* remaining unsettled balance is below 0.01.
C25_ZeroSumSettlesAll ==
  (run.pc = "returned" /\ SumBalance(run.balances) = 0) =>
    /\ run.creditorIndex > Len(run.creditors)
    /\ run.debtorIndex > Len(run.debtors)
    /\ \A i \in DOMAIN run.balances : Abs(Remaining(i)) < 10

\* an iteration that emits moves the current creditor's and the current
\* debtor's remaining balances toward zero by exactly the minimum of the
\* two, and touches no other entry
MovesByMinimum ==
  LET ci == run.creditorIndex
      di == run.debtorIndex
      least == Min(run.creditors[ci].balance, Abs(run.debtors[di].balance))
  IN /\ run'.creditors = [run.creditors EXCEPT ![ci].balance = @ - least]
     /\ run'.debtors = [run.debtors EXCEPT ![di].balance = @ + least]
     /\ run'.debts[Len(run'.debts)].from_user = run.debtors[di].user_id
     /\ run'.debts[Len(run'.debts)].to_user = run.creditors[ci].user_id

Emits == run.pc = "loop" /\ run'.pc = "loop" /\ Len(run'.debts) > Len(run.debts)

\* the lists are sorted when the loop starts, creditors from the largest
\* balance down and debtors from the most negative up, and the indices only
\* go up
ProcessedInOrder ==
  /\ (run.pc = "called" /\ run'.pc = "loop")
       => /\ \A k \in 1..(Len(run'.creditors) - 1) :
               run'.creditors[k].balance >= run'.creditors[k + 1].balance
          /\ \A k \in 1..(Len(run'.debtors) - 1) :
               run'.debtors[k].balance <= run'.debtors[k + 1].balance
  /\ (run.pc = "loop" /\ run'.pc = "loop")
       => /\ run'.creditorIndex \in {run.creditorIndex, run.creditorIndex + 1}
          /\ run'.debtorIndex \in {run.debtorIndex, run.debtorIndex + 1}

Owed(i) == IF run.balances[i].balance > 0 THEN run.balances[i].balance ELSE 0
Owes(i) == IF run.balances[i].balance < 0 THEN -run.balances[i].balance ELSE 0

IdleCall == [pc |-> "idle", input |-> <<>>]

InitMembers ==
  /\ groupsTable = {}
  /\ groupMembersTable = {}
  /\ expensesTable = {}
  /\ expenseParticipantsTable = {}
  /\ settlementsTable = {}
  /\ nextGroupId = 1
  /\ nextExpenseId = 1
  /\ nextSettlementId = 1
  /\ last = Last("none", "ok")
  /\ plan = NoPlan
  /\ read = NoRead
  /\ tx = [active |-> FALSE, pc |-> "calls", nextMemberId |-> 1,
           calls |-> [c \in 1..NumCallers |-> IdleCall]]
  /\ run = NoRun
  /\ userAccounts = {}

\* createGroup as the one transaction it is, for a creator who exists: the
\* group row and the creator's 'admin' row, which draws its id from the serial
createGroupCommitted(input) ==
  /\ input.created_by \in usersTable
  /\ tx.nextMemberId <= MaxMemberSerial
  /\ groupsTable' = groupsTable \cup
       {[id |-> nextGroupId, created_by |-> input.created_by]}
  /\ groupMembersTable' = groupMembersTable \cup
       {[id |-> tx.nextMemberId, group_id |-> nextGroupId,
         user_id |-> input.created_by, role |-> "admin"]}
  /\ nextGroupId' = nextGroupId + 1
  /\ tx' = [tx EXCEPT !.nextMemberId = @ + 1]
  /\ last' = Last("createGroup", "ok")
  /\ UNCHANGED <<ledger, nextExpenseId, nextSettlementId, plan, read, run, userAccounts>>

\* a caller enters addGroupMember
callAddGroupMember(c, input) ==
  /\ tx.calls[c].pc = "idle"
  /\ tx' = [tx EXCEPT !.calls[c] = [pc |-> "groupExists", input |-> input]]
  /\ UNCHANGED <<tables, serials, last, plan, read, run, userAccounts>>

\* the call throws: the error reaches the caller, nothing was written
throwAddGroupMember(c, outcome) ==
  /\ tx' = [tx EXCEPT !.calls[c] = IdleCall]
  /\ last' = Last("addGroupMember", outcome)
  /\ UNCHANGED <<tables, serials, plan, read, run, userAccounts>>

\* SELECT FROM groups WHERE id = group_id
selectGroupExists(c) ==
  /\ tx.calls[c].pc = "groupExists"
  /\ IF ~\E g \in groupsTable : g.id = tx.calls[c].input.group_id
     THEN throwAddGroupMember(c, "group_not_found")
     ELSE /\ tx' = [tx EXCEPT !.calls[c].pc = "userExists"]
          /\ UNCHANGED <<tables, serials, last, plan, read, run, userAccounts>>

\* SELECT FROM users WHERE id = user_id
selectUserExists(c) ==
  /\ tx.calls[c].pc = "userExists"
  /\ IF tx.calls[c].input.user_id \notin usersTable
     THEN throwAddGroupMember(c, "user_not_found")
     ELSE /\ tx' = [tx EXCEPT !.calls[c].pc = "existingMember"]
          /\ UNCHANGED <<tables, serials, last, plan, read, run, userAccounts>>

\* SELECT FROM group_members WHERE group_id = .. AND user_id = ..
selectExistingMember(c) ==
  /\ tx.calls[c].pc = "existingMember"
  /\ IF IsMember(tx.calls[c].input.group_id, tx.calls[c].input.user_id)
     THEN throwAddGroupMember(c, "already_member")
     ELSE /\ tx' = [tx EXCEPT !.calls[c].pc = "insert"]
          /\ UNCHANGED <<tables, serials, last, plan, read, run, userAccounts>>

\* INSERT INTO group_members; the call returns the new row
insertGroupMember(c) ==
  LET input == tx.calls[c].input
  IN /\ tx.calls[c].pc = "insert"
     /\ tx.nextMemberId <= MaxMemberSerial
     /\ groupMembersTable' = groupMembersTable \cup
          {[id |-> tx.nextMemberId, group_id |-> input.group_id,
            user_id |-> input.user_id, role |-> input.role]}
     /\ tx' = [tx EXCEPT !.calls[c] = IdleCall, !.nextMemberId = @ + 1]
     /\ last' = Last("addGroupMember", "ok")
     /\ UNCHANGED <<groupsTable, ledger, serials, plan, read, run, userAccounts>>

NextMembers ==
  \/ \E u \in Users :
       nextGroupId <= MaxGroups /\ createGroupCommitted([created_by |-> u])
  \/ \E c \in 1..NumCallers, g \in GroupIdInputs, u \in UserIdInputs :
       callAddGroupMember(c, [group_id |-> g, user_id |-> u, role |-> "member"])
  \/ \E c \in 1..NumCallers : selectGroupExists(c)
  \/ \E c \in 1..NumCallers : selectUserExists(c)
  \/ \E c \in 1..NumCallers : selectExistingMember(c)
  \/ \E c \in 1..NumCallers : insertGroupMember(c)
  \/ \E g \in GroupIds, u \in Users :
       removeGroupMember([group_id |-> g, user_id |-> u]) /\ UNCHANGED procs

SpecMembers == InitMembers /\ [][NextMembers]_vars

\* C28: after any interleaving of createGroup, addGroupMember and
\* removeGroupMember calls, two concurrent addGroupMember calls for the same
\* (group, user) included, group_members holds at most one row for each
\* (group_id, user_id).
C28_MembershipUniqueness ==
  \A m1, m2 \in groupMembersTable :
    (m1.group_id = m2.group_id /\ m1.user_id = m2.user_id) => m1 = m2

\* --------------------------------------------------- createUser, loginUser
\* The ledger handlers above are checked over a fixed population of user
\* ids (usersTable); createUser and loginUser are checked over the rows of
\* users themselves, with the columns the two handlers read and write.
Emails == {"ann@example.com", "bob@example.com"}

\* passwords createUser accepts (z.string().min(6))
Passwords == {"password123", "test123"}

\* the salt Bun.password.hash draws for a call
Salts == {"c2FsdDE", "c2FsdDI"}

\* Bun.password.hash: the PHC string of argon2id, "$argon2id$v=19$m=..,t=..,
\* p=..$<salt>$<digest>"; the digest is written here as the password it was
\* computed from, one digest for each (password, salt)
PasswordHash(password, salt) ==
  "$argon2id$v=19$m=65536,t=2,p=1$" \o salt \o "$" \o password

\* SELECT FROM users WHERE email = ..; email is unique
UsersByEmail(email) == {u \in userAccounts : u.email = email}

\* createUser: the email check, the hash, the insert; the id comes from the
\* serial of users, from which only the insert draws and no row is deleted.
\* last holds what the caller passed and what the call returned.
createUser(input) ==
  /\ IF UsersByEmail(input.email) # {}
     THEN /\ last' = [op |-> "createUser", input |-> input,
                      outcome |-> "email_exists"]
          /\ UNCHANGED userAccounts
     ELSE \E salt \in Salts :
            LET user == [id |-> Cardinality(userAccounts) + 1,
                         email |-> input.email,
                         password_hash |-> PasswordHash(input.password, salt)]
            IN /\ userAccounts' = userAccounts \cup {user}
               /\ last' = [op |-> "createUser", input |-> input,
                           outcome |-> <<user>>]
  /\ UNCHANGED <<tables, serials, plan, read, tx, run>>

\* loginUser returns null (the empty sequence here) when no row has the
\* email or when password_hash is not the string that was passed as
\* password, and the row (a sequence of one) otherwise
loginUser(input) ==
  LET users == UsersByEmail(input.email)
      result == IF users = {} THEN <<>>
                ELSE LET user == CHOOSE u \in users : TRUE
                     IN IF user.password_hash # input.password THEN <<>>
                        ELSE <<user>>
  IN /\ last' = [op |-> "loginUser", input |-> input, outcome |-> result]
     /\ UNCHANGED <<tables, serials, plan, read, tx, run, userAccounts>>

\* a caller may pass to loginUser any string as password (z.string()): the
\* passwords and the strings password_hash can hold
NextAccounts ==
  \/ \E e \in Emails, p \in Passwords :
       createUser([email |-> e, password |-> p])
  \/ \E e \in Emails,
        p \in Passwords \cup {PasswordHash(q, s) : q \in Passwords, s \in Salts} :
       loginUser([email |-> e, password |-> p])

SpecAccounts == Init /\ [][NextAccounts]_vars

\* C29: after createUser(email, name, password) succeeded, loginUser(email,
\* password) with the password the account was created with returns that
\* user, and loginUser with any other password returns null.
C29_AccountRoundTrip ==
  last.op = "loginUser" =>
    \A u \in UsersByEmail(last.input.email) :
      IF \E s \in Salts : u.password_hash = PasswordHash(last.input.password, s)
      THEN last.outcome = <<u>>
      ELSE last.outcome = <<>>

\* ---------------------------------------------- createExpense: acceptance
\* C30: createExpense accepts every input in which the group exists, the
\* payer is a member, every listed participant is a member and the shares
\* sum to the amount within 0.01, also when a user is listed more than
\* once; the error about participants who are not members is raised only
\* if some listed participant is not a member.
C30_AcceptsValidInputs ==
  \A input \in ExpenseInputs :
    /\ (/\ \E g \in groupsTable : g.id = input.group_id
        /\ IsMember(input.group_id, input.paid_by)
        /\ \A i \in DOMAIN input.participants :
             IsMember(input.group_id, input.participants[i].user_id)
        /\ Abs(TotalShares(input.participants) - input.amount) <= ShareTolerance)
         => createExpenseOutcome(input) = "ok"
    /\ createExpenseOutcome(input) = "participants_not_members" =>
         \E i \in DOMAIN input.participants :
           ~IsMember(input.group_id, input.participants[i].user_id)

====
